---- MODULE Spec2Model ----
(***************************************************************************)
(* Bastroblasto: the simulation core of src/main.rs as a state machine.    *)
(*                                                                         *)
(* Numbers.  f32 values are modelled as integers (pixels, pixels/second)   *)
(* plus one value NaN; Duration and Instant are integers in milliseconds.  *)
(* A product with the frame time is v * dt / 1000, rounded down.           *)
(*                                                                         *)
(* Scheduling.  main() adds the systems to one stage without any ordering  *)
(* constraint, so within a tick they run in an order the source does not   *)
(* fix: the stage sorts them once, when it is built, and the model draws   *)
(* that order from Schedules.  Commands (spawn, despawn) are buffered per   *)
(* system and applied when the stage ends.                                  *)
(*                                                                         *)
(* Left out: update_spinner_spin and the rotation of the transforms.  The  *)
(* turn keys are held released (direction = 0.0), so the ship keeps its    *)
(* initial orientation and forward_dir is the +Y axis.                     *)
(***************************************************************************)
EXTENDS Integers, Sequences, FiniteSets, TLC

VARIABLES
    clock,            \* Instant::now(), in ms
    last_update,      \* Time::last_update(): None or an Instant
    delta,            \* Time::delta(), in ms
    ticks,            \* number of frames started
    order,            \* the order in which the stage runs its systems
    pc,               \* position in order of the next system to run
    stage,            \* "idle" between frames, "update" while the stage runs
    player,           \* the ship: [pos, vel, last_shot_time]
    rocks,            \* the Rock table: sequence of [id, pos, vel]
    shots,            \* the Shot table: sequence of [id, pos, vel, ttl]
    next_id,          \* next entity id to reserve
    commands,         \* the command buffer of every system
    level,            \* Level::level
    rock_kill_count,  \* Level::rock_kill_count
    score,            \* Score::value
    exits,            \* AppExit events sent (each with a printed score)
    destroyed,        \* history: ids of the rocks a despawn was issued for
    fired,            \* history: the instants at which a shot was spawned
    hits,             \* history: the (shot, rock) hits of the last shot-rock pass
    suppressed,       \* history: the instants at which fire was pressed in vain
    keys,             \* Input<KeyCode>: [up, space], as sampled for this frame
    aux               \* the state of the stand-alone wrap and placement specifications

vars == <<clock, last_update, delta, ticks, order, pc, stage, player, rocks, shots,
          next_id, commands, level, rock_kill_count, score, exits, destroyed,
          fired, hits, suppressed, keys, aux>>

game == <<clock, last_update, delta, ticks, order, pc, stage, player, rocks, shots,
          next_id, commands, level, rock_kill_count, score, exits, destroyed,
          fired, hits, suppressed, keys>>

----------------------------------------------------------------------------
(* Game constants, src/main.rs lines 8-28 and 518-521.                      *)

SHOT_TTL == 2000
PLAYER_BBOX == 12
ROCK_BBOX == 12
SHOT_BBOX == 6
MAX_ROCK_VEL == 50
SHOT_SPEED == 200
PLAYER_THRUST == 100
PLAYER_SHOT_TIME == 500
MAX_PHYSICS_VEL == 250
WIDTH == 800
HEIGHT == 600

(* Bounds of the model.                                                     *)
MaxTicks == 4

(* Frame times the host supplies, in ms.                                    *)
DtSet == {500, 1000}

None == -1

----------------------------------------------------------------------------
(* f32 arithmetic with NaN.                                                 *)

NaN == 99999999

IsNaN(a) == a = NaN

FAdd(a, b) == IF IsNaN(a) \/ IsNaN(b) THEN NaN ELSE a + b
FSub(a, b) == IF IsNaN(a) \/ IsNaN(b) THEN NaN ELSE a - b
FMul(a, b) == IF IsNaN(a) \/ IsNaN(b) THEN NaN ELSE a * b
FLt(a, b) == ~IsNaN(a) /\ ~IsNaN(b) /\ a < b
FGe(a, b) == ~IsNaN(a) /\ ~IsNaN(b) /\ a >= b
FGt(a, b) == ~IsNaN(a) /\ ~IsNaN(b) /\ a > b

(* dt * v for a frame time dt in ms.                                        *)
FMulDt(dt, v) == IF IsNaN(v) THEN NaN ELSE (v * dt) \div 1000

Vec2(a, b) == [x |-> a, y |-> b]
ZERO == Vec2(0, 0)
VAdd(a, b) == Vec2(FAdd(a.x, b.x), FAdd(a.y, b.y))
VSub(a, b) == Vec2(FSub(a.x, b.x), FSub(a.y, b.y))
VMulDt(dt, v) == Vec2(FMulDt(dt, v.x), FMulDt(dt, v.y))
dot(a, b) == FAdd(FMul(a.x, b.x), FMul(a.y, b.y))
length_squared(a) == dot(a, a)
distance_squared(a, b) == length_squared(VSub(a, b))

RECURSIVE SqrtIn(_, _, _)
SqrtIn(n, lo, hi) ==
    IF hi - lo <= 1 THEN lo
    ELSE LET mid == (lo + hi) \div 2
         IN IF mid * mid <= n THEN SqrtIn(n, mid, hi) ELSE SqrtIn(n, lo, mid)

(* f32::sqrt, rounded down to an integer (46341 squared exceeds 2^31).      *)
sqrt(n) ==
    IF IsNaN(n) THEN NaN ELSE SqrtIn(n, 0, IF n + 1 > 46341 THEN 46341 ELSE n + 1)

(* A unit vector is kept in thousandths.                                    *)
ONE == 1000

(* Vec2::normalize: self * (1.0 / length): NaN for the zero vector, of      *)
(* which the length is 0 and the reciprocal infinite.                       *)
normalize(v) ==
    LET l2 == length_squared(v)
        len == sqrt(l2 * ONE * ONE)
    IN IF IsNaN(l2) \/ l2 = 0 THEN Vec2(NaN, NaN)
       ELSE Vec2((v.x * ONE * ONE) \div len, (v.y * ONE * ONE) \div len)

(* s * n for a unit vector n and a scalar s.                                *)
VMulUnit(s, n) ==
    Vec2(IF IsNaN(s) \/ IsNaN(n.x) THEN NaN ELSE (s * n.x) \div ONE,
         IF IsNaN(s) \/ IsNaN(n.y) THEN NaN ELSE (s * n.y) \div ONE)

(* v.dot(n) for a unit vector n.                                            *)
DotUnit(v, n) == LET d == dot(v, n) IN IF IsNaN(d) THEN NaN ELSE d \div ONE

VHalf(v) ==
    Vec2(IF IsNaN(v.x) THEN NaN ELSE v.x \div 2,
         IF IsNaN(v.y) THEN NaN ELSE v.y \div 2)

----------------------------------------------------------------------------
(* Free helper functions.                                                   *)

total_rock_count(lv) == lv + 4

test_hit(pa, ra, pb, rb) == FLt(distance_squared(pa, pb), (ra + rb) * (ra + rb))

(* A variant that wraps at the upper bound only.                            *)
WrapCoordUpperOnly(p, s) ==
    LET bound == s \div 2
    IN IF FGe(p, bound) THEN FSub(p, s) ELSE p

WrapCoord(p, s) ==
    LET bound == s \div 2
    IN IF FGe(p, bound) THEN FSub(p, s)
       ELSE IF FLt(p, -bound) THEN FAdd(p, s)
       ELSE p

wrap_actor_position(pos, sx, sy) == Vec2(WrapCoord(pos.x, sx), WrapCoord(pos.y, sy))

(* A variant whose zone has the radius of the ship itself.                  *)
ExcludedShipRadius(pos, exclusion) == test_hit(pos, ROCK_BBOX, exclusion, PLAYER_BBOX)

(* The exclusion test of one candidate position in next_level.              *)
Excluded(pos, exclusion) == test_hit(pos, ROCK_BBOX, exclusion, PLAYER_BBOX * 5)

(* A draw of the random generator for one rock: a position in the window    *)
(* and a velocity of speed below MAX_ROCK_VEL.                              *)
Draw(px, py, vx, vy) == [pos |-> Vec2(px, py), vel |-> Vec2(vx, vy)]

ValidDraw(d) ==
    /\ d.pos.x >= -(WIDTH \div 2) /\ d.pos.x < WIDTH \div 2
    /\ d.pos.y >= -(HEIGHT \div 2) /\ d.pos.y < HEIGHT \div 2
    /\ length_squared(d.vel) < MAX_ROCK_VEL * MAX_ROCK_VEL

(* The draw sequences the random generator may produce for one wave.        *)
DrawStreams ==
    { << Draw(0, 40, 0, 0),
         Draw(0, 217, 0, 0), Draw(0, 183, 0, 0), Draw(17, 200, 0, 0),
         Draw(-17, 200, 0, 0), Draw(0, -200, 0, 0),
         Draw(200, 0, 0, 0), Draw(-200, 0, 0, 0), Draw(200, 100, 0, 0),
         Draw(-200, 100, 0, 0), Draw(200, -100, 0, 0), Draw(-200, -100, 0, 0),
         Draw(300, 0, 0, 0) >>,
      << Draw(95, 0, -26, 0), Draw(-9, 93, 0, -26), Draw(-9, -93, 0, 26),
         Draw(50, 50, 0, 0),
         Draw(95, -200, -26, 0), Draw(-95, -200, 26, 0),
         Draw(200, 0, 0, 0), Draw(-200, 0, 0, 0), Draw(200, 100, 0, 0),
         Draw(-200, 100, 0, 0), Draw(200, -100, 0, 0), Draw(-200, -100, 0, 0),
         Draw(300, 0, 0, 0) >> }

(* The candidates of a stream that the rejection loop keeps.                *)
Accepted(stream, exclusion) ==
    SelectSeq(stream, LAMBDA d : ~Excluded(d.pos, exclusion))

(* next_level: the spawn commands of the new wave.  The level and the kill  *)
(* count are set by the caller's step (NextLevelOf, NextKillCount).         *)
NextLevelOf(lv) == lv + 1
NextKillCount == 0

RECURSIVE SpawnRocks(_, _, _)
SpawnRocks(draws, k, id) ==
    IF k > Len(draws) THEN <<>>
    ELSE <<[op |-> "rock", id |-> id, pos |-> draws[k].pos, vel |-> draws[k].vel]>>
         \o SpawnRocks(draws, k + 1, id + 1)

(* A variant that takes the rock count before the level is incremented.     *)
next_level_count_first(stream, lv, exclusion, id) ==
    SpawnRocks(SubSeq(Accepted(stream, exclusion), 1, total_rock_count(lv)), 1, id)

next_level(stream, lv, exclusion, id) ==
    SpawnRocks(SubSeq(Accepted(stream, exclusion), 1, total_rock_count(NextLevelOf(lv))),
               1, id)

CanPlace(stream, lv, exclusion) ==
    Len(Accepted(stream, exclusion)) >= total_rock_count(NextLevelOf(lv))

----------------------------------------------------------------------------
(* The schedule: the systems main() adds, in the order it adds them.        *)

Systems ==
    << "control", "update_box_position", "update_shot_ttl",
       "player_rock_collision", "rock_shot_collision", "rock_rock_collision" >>

SystemNames == { Systems[i] : i \in 1..Len(Systems) }

(* Orders the stage may settle on: the order of registration; the order in  *)
(* which rock_rock_collision, which shares no data with control, starts     *)
(* first; and the order with the ship-rock pass last.                       *)
Schedules ==
    { Systems,
      << "rock_rock_collision", "control", "update_shot_ttl",
         "update_box_position", "player_rock_collision", "rock_shot_collision" >>,
      << "control", "update_box_position", "update_shot_ttl",
         "rock_rock_collision", "rock_shot_collision", "player_rock_collision" >> }

NoCommands == [s \in SystemNames |-> <<>>]

Despawn(id) == [op |-> "despawn", id |-> id]

(* The ship keeps its initial orientation: t.rotation.mul_vec3(Vec3::Y).    *)
forward_dir == Vec2(0, 1)

Runs(sys) == stage = "update" /\ pc <= Len(order) /\ order[pc] = sys

Done(sys) == pc' = pc + 1 /\ order' = order

----------------------------------------------------------------------------
(* setup: the state after the startup stage.                                *)

SetupTime == 2 * PLAYER_SHOT_TIME

RockOf(c) == [id |-> c.id, pos |-> c.pos, vel |-> c.vel]
ShotOf(c) == [id |-> c.id, pos |-> c.pos, vel |-> c.vel, ttl |-> c.ttl]

Map(f(_), seq) == [i \in 1..Len(seq) |-> f(seq[i])]

GameInit ==
    /\ clock = SetupTime
    /\ last_update = None
    /\ delta = 0
    /\ ticks = 0
    /\ order \in Schedules
    /\ pc = 1
    /\ stage = "idle"
    /\ player = [pos |-> ZERO, vel |-> ZERO,
                 last_shot_time |-> SetupTime - 2 * PLAYER_SHOT_TIME]
    /\ level = NextLevelOf(0)
    /\ rock_kill_count = NextKillCount
    /\ \E stream \in DrawStreams :
          /\ CanPlace(stream, 0, ZERO)
          /\ rocks = Map(RockOf, next_level(stream, 0, ZERO, 1))
    /\ shots = <<>>
    /\ next_id = 1 + total_rock_count(NextLevelOf(0))
    /\ commands = NoCommands
    /\ score = 0
    /\ exits = 0
    /\ destroyed = {}
    /\ fired = <<>>
    /\ hits = {}
    /\ suppressed = {}
    /\ keys = [up |-> FALSE, space |-> FALSE]

NoAux == [spec |-> "game"]

Init == GameInit /\ aux = NoAux

----------------------------------------------------------------------------
(* The host loop: a frame starts unless AppExit was sent; the time system   *)
(* samples the clock once per frame.                                        *)

time_system ==
    /\ stage = "idle"
    /\ exits = 0
    /\ ticks < MaxTicks
    /\ \E d \in DtSet :
          /\ clock' = clock + d
          /\ delta' = IF last_update = None THEN 0 ELSE clock' - last_update
          /\ last_update' = clock'
    /\ ticks' = ticks + 1
    /\ stage' = "update"
    /\ keys' \in [up : BOOLEAN, space : BOOLEAN]
    /\ pc' = 1
    /\ hits' = {}
    /\ UNCHANGED <<player, rocks, shots, next_id, commands, level, rock_kill_count,
                   score, exits, destroyed, fired, order, suppressed, aux>>

----------------------------------------------------------------------------
(* control: thrust and fire.                                                *)

ClampVel(v) ==
    LET norm_sq == length_squared(v)
    IN IF FGt(norm_sq, MAX_PHYSICS_VEL * MAX_PHYSICS_VEL)
       THEN Vec2((v.x * MAX_PHYSICS_VEL) \div sqrt(norm_sq),
                 (v.y * MAX_PHYSICS_VEL) \div sqrt(norm_sq))
       ELSE v

Thrust(v, dt) ==
    ClampVel(VAdd(v, Vec2(FMulDt(dt, PLAYER_THRUST * forward_dir.x),
                          FMulDt(dt, PLAYER_THRUST * forward_dir.y))))

(* now.saturating_duration_since(earlier)                                   *)
saturating_duration_since(now, earlier) == IF now > earlier THEN now - earlier ELSE 0

(* A variant that lets a shot through at exactly the cooldown.              *)
CanShootAtCooldown(now, last_shot_time) ==
    /\ now # None
    /\ saturating_duration_since(now, last_shot_time) >= PLAYER_SHOT_TIME

CanShoot(now, last_shot_time) ==
    /\ now # None
    /\ saturating_duration_since(now, last_shot_time) > PLAYER_SHOT_TIME

control ==
    /\ Runs("control")
    /\ LET thrust == keys.up
           shot == keys.space
           vel == IF thrust THEN Thrust(player.vel, delta) ELSE player.vel
           now == last_update
           fire == shot /\ CanShoot(now, player.last_shot_time)
       IN /\ player' = [player EXCEPT
                          !.vel = vel,
                          !.last_shot_time = IF fire THEN now ELSE @]
          /\ commands' = [commands EXCEPT !["control"] =
                 IF fire
                 THEN <<[op |-> "shot", id |-> next_id, pos |-> player.pos,
                         vel |-> VAdd(Vec2(SHOT_SPEED * forward_dir.x,
                                           SHOT_SPEED * forward_dir.y), vel),
                         ttl |-> SHOT_TTL]>>
                 ELSE <<>>]
          /\ next_id' = IF fire THEN next_id + 1 ELSE next_id
          /\ fired' = IF fire THEN Append(fired, now) ELSE fired
          /\ suppressed' = IF shot /\ ~fire THEN suppressed \cup {now} ELSE suppressed
    /\ Done("control")
    /\ UNCHANGED <<clock, last_update, delta, ticks, stage, rocks, shots, level,
                   rock_kill_count, score, exits, destroyed, hits, keys, aux>>

----------------------------------------------------------------------------
(* update_box_position: every entity with a Transform and a BBox moves and  *)
(* is wrapped to the window.                                                *)

Step(pos, vel, dt, sx, sy) == wrap_actor_position(VAdd(pos, VMulDt(dt, vel)), sx, sy)

Moved(e) == [e EXCEPT !.pos = Step(e.pos, e.vel, delta, WIDTH, HEIGHT)]

update_box_position ==
    /\ Runs("update_box_position")
    /\ player' = Moved(player)
    /\ rocks' = Map(Moved, rocks)
    /\ shots' = Map(Moved, shots)
    /\ Done("update_box_position")
    /\ UNCHANGED <<clock, last_update, delta, ticks, stage, next_id, commands,
                   level, rock_kill_count, score, exits, destroyed, fired, hits,
                   order, suppressed, keys, aux>>

----------------------------------------------------------------------------
(* update_shot_ttl: ttl.checked_sub(dt) is None when dt > ttl.              *)

(* A variant that stops at zero instead of reporting the underflow.         *)
saturating_sub(a, b) == IF b > a THEN 0 ELSE a - b

checked_sub(a, b) == IF b > a THEN None ELSE a - b

Expired(ttl, dt) == checked_sub(ttl, dt) = None

Aged(s) == IF Expired(s.ttl, delta) THEN s ELSE [s EXCEPT !.ttl = checked_sub(@, delta)]

update_shot_ttl ==
    /\ Runs("update_shot_ttl")
    /\ shots' = Map(Aged, shots)
    /\ commands' = [commands EXCEPT !["update_shot_ttl"] =
           Map(LAMBDA s : Despawn(s.id),
               SelectSeq(shots, LAMBDA s : Expired(s.ttl, delta)))]
    /\ Done("update_shot_ttl")
    /\ UNCHANGED <<clock, last_update, delta, ticks, stage, player, rocks, next_id,
                   level, rock_kill_count, score, exits, destroyed, fired, hits,
                   order, suppressed, keys, aux>>

----------------------------------------------------------------------------
(* player_rock_collision: one printed score and one AppExit per rock that   *)
(* overlaps the ship; the loop does not stop at the first.                  *)

ShipHitsRock(p, r) == test_hit(p.pos, PLAYER_BBOX, r.pos, ROCK_BBOX)

ShipHits == Len(SelectSeq(rocks, LAMBDA r : ShipHitsRock(player, r)))

player_rock_collision ==
    /\ Runs("player_rock_collision")
    /\ exits' = exits + ShipHits
    /\ Done("player_rock_collision")
    /\ UNCHANGED <<clock, last_update, delta, ticks, stage, player, rocks, shots,
                   next_id, commands, level, rock_kill_count, score, destroyed,
                   fired, hits, order, suppressed, keys, aux>>

----------------------------------------------------------------------------
(* rock_shot_collision: every (shot, rock) pair of the two queries is       *)
(* tested; the despawns are commands, so both entities stay in the queries  *)
(* until the stage ends.                                                    *)

ShotHitsRock(s, r) == test_hit(r.pos, ROCK_BBOX, s.pos, SHOT_BBOX)

(* The (shot index, rock index) pairs in the order of the nested loops.     *)
LoopPairs(ns, nr) ==
    [k \in 1..(ns * nr) |-> <<((k - 1) \div nr) + 1, ((k - 1) % nr) + 1>>]

HitPairs(ss, rs) ==
    SelectSeq(LoopPairs(Len(ss), Len(rs)),
              LAMBDA p : ShotHitsRock(ss[p[1]], rs[p[2]]))

RECURSIVE HitCommands(_, _, _, _)
HitCommands(hp, k, ss, rs) ==
    IF k > Len(hp) THEN <<>>
    ELSE <<Despawn(rs[hp[k][2]].id), Despawn(ss[hp[k][1]].id)>>
         \o HitCommands(hp, k + 1, ss, rs)

WaveCleared(kills, lv) == kills = total_rock_count(lv)

rock_shot_collision ==
    /\ Runs("rock_shot_collision")
    /\ LET hp == HitPairs(shots, rocks)
           kills == rock_kill_count + Len(hp)
           despawns == HitCommands(hp, 1, shots, rocks)
       IN /\ score' = score + Len(hp)
          /\ hits' = { <<shots[hp[k][1]].id, rocks[hp[k][2]].id>> : k \in 1..Len(hp) }
          /\ destroyed' = destroyed \cup { rocks[hp[k][2]].id : k \in 1..Len(hp) }
          /\ IF WaveCleared(kills, level)
             THEN \E stream \in DrawStreams :
                     /\ CanPlace(stream, level, player.pos)
                     /\ level' = NextLevelOf(level)
                     /\ rock_kill_count' = NextKillCount
                     /\ commands' = [commands EXCEPT !["rock_shot_collision"] =
                            despawns \o next_level(stream, level, player.pos, next_id)]
                     /\ next_id' = next_id + total_rock_count(NextLevelOf(level))
             ELSE /\ rock_kill_count' = kills
                  /\ commands' = [commands EXCEPT !["rock_shot_collision"] = despawns]
                  /\ UNCHANGED <<level, next_id>>
    /\ Done("rock_shot_collision")
    /\ UNCHANGED <<clock, last_update, delta, ticks, stage, player, rocks, shots,
                   exits, fired, order, suppressed, keys, aux>>

----------------------------------------------------------------------------
(* rock_rock_collision: the pairs are resolved one after the other on the   *)
(* copies rocks_pos and rocks_vel, which are written back at the end.       *)

MIN_DIST == ROCK_BBOX + 1

RECURSIVE PairsFrom(_, _, _)
PairsFrom(a, b, n) ==
    IF a > n THEN <<>>
    ELSE IF b > n THEN PairsFrom(a + 1, a + 2, n)
    ELSE <<(<<a, b>>)>> \o PairsFrom(a, b + 1, n)

ResolvePair(st, a, b) ==
    IF test_hit(st.pos[a], ROCK_BBOX, st.pos[b], ROCK_BBOX)
    THEN LET normal == normalize(VSub(st.pos[a], st.pos[b]))
             to_b_vel == VMulUnit(DotUnit(st.vel[a], normal), normal)
             to_a_vel == VMulUnit(DotUnit(st.vel[b], normal), normal)
             new_b_vel == VAdd(VSub(st.vel[b], to_a_vel), to_b_vel)
             new_a_vel == VAdd(VSub(st.vel[a], to_b_vel), to_a_vel)
             middle == VHalf(VAdd(st.pos[a], st.pos[b]))
         IN [pos |-> [st.pos EXCEPT ![a] = VAdd(middle, VMulUnit(MIN_DIST, normal)),
                                    ![b] = VSub(middle, VMulUnit(MIN_DIST, normal))],
             vel |-> [st.vel EXCEPT ![a] = new_a_vel, ![b] = new_b_vel]]
    ELSE st

(* The loops over a and b.  (The state after each pair is bound as a value   *)
(* before the next pair is resolved.)                                       *)
RECURSIVE ResolveAll(_, _, _)
ResolveAll(pairs, k, st) ==
    IF k > Len(pairs) THEN st
    ELSE CHOOSE r \in { ResolveAll(pairs, k + 1, nx) :
                           nx \in {ResolvePair(st, pairs[k][1], pairs[k][2])} } : TRUE

(* The write-back loop: rock i takes rocks_pos[i] and rocks_vel[i].          *)
RECURSIVE WriteBack(_, _, _)
WriteBack(rs, st, k) ==
    IF k > Len(rs) THEN <<>>
    ELSE <<[rs[k] EXCEPT !.pos = st.pos[k], !.vel = st.vel[k]]>>
         \o WriteBack(rs, st, k + 1)

Bounced(rs) ==
    WriteBack(rs,
              ResolveAll(PairsFrom(1, 2, Len(rs)), 1,
                         [pos |-> [i \in 1..Len(rs) |-> rs[i].pos],
                          vel |-> [i \in 1..Len(rs) |-> rs[i].vel]]),
              1)

rock_rock_collision ==
    /\ Runs("rock_rock_collision")
    /\ rocks' = Bounced(rocks)
    /\ Done("rock_rock_collision")
    /\ UNCHANGED <<clock, last_update, delta, ticks, stage, player, shots, next_id,
                   commands, level, rock_kill_count, score, exits, destroyed,
                   fired, hits, order, suppressed, keys, aux>>

----------------------------------------------------------------------------
(* The end of the stage: the command buffers are applied, system by system  *)
(* in the order of the schedule.  A despawn removes the entity from its     *)
(* table by swap_remove; a despawn of an entity already gone does nothing.  *)

RECURSIVE AllCommands(_, _)
AllCommands(buffers, k) ==
    IF k > Len(order) THEN <<>>
    ELSE buffers[order[k]] \o AllCommands(buffers, k + 1)

IndexOf(table, id) ==
    IF \E i \in 1..Len(table) : table[i].id = id
    THEN CHOOSE i \in 1..Len(table) : table[i].id = id
    ELSE 0

SwapRemove(table, id) ==
    LET i == IndexOf(table, id)
        n == Len(table)
    IN IF i = 0 THEN table
       ELSE SubSeq([table EXCEPT ![i] = table[n]], 1, n - 1)

RECURSIVE ApplyRocks(_, _, _)
ApplyRocks(cs, k, table) ==
    IF k > Len(cs) THEN table
    ELSE ApplyRocks(cs, k + 1,
             IF cs[k].op = "despawn" THEN SwapRemove(table, cs[k].id)
             ELSE IF cs[k].op = "rock" THEN Append(table, RockOf(cs[k]))
             ELSE table)

RECURSIVE ApplyShots(_, _, _)
ApplyShots(cs, k, table) ==
    IF k > Len(cs) THEN table
    ELSE ApplyShots(cs, k + 1,
             IF cs[k].op = "despawn" THEN SwapRemove(table, cs[k].id)
             ELSE IF cs[k].op = "shot" THEN Append(table, ShotOf(cs[k]))
             ELSE table)

apply_buffers ==
    /\ stage = "update"
    /\ pc > Len(order)
    /\ rocks' = ApplyRocks(AllCommands(commands, 1), 1, rocks)
    /\ shots' = ApplyShots(AllCommands(commands, 1), 1, shots)
    /\ commands' = NoCommands
    /\ stage' = "idle"
    /\ UNCHANGED <<clock, last_update, delta, ticks, pc, player, next_id, level,
                   rock_kill_count, score, exits, destroyed, fired, hits,
                   order, suppressed, keys, aux>>

----------------------------------------------------------------------------

Next ==
    \/ time_system
    \/ control
    \/ update_box_position
    \/ update_shot_ttl
    \/ player_rock_collision
    \/ rock_shot_collision
    \/ rock_rock_collision
    \/ apply_buffers

Spec == Init /\ [][Next]_vars

----------------------------------------------------------------------------
(* The physics step of one entity on its own, for frame times up to a long  *)
(* stall of the host: update_box_position applied to an entity that starts  *)
(* inside the window.  aux.raw is the position handed to                    *)
(* wrap_actor_position, aux.pos the position it leaves.                     *)

MaxWrapSteps == 3

WideDtSet == {0, 500, 1000, 2000}

WrapStarts == { Vec2(0, 0), Vec2(-400, -300), Vec2(399, 299), Vec2(399, -300) }

WrapVels == { Vec2(250, 0), Vec2(-250, 0), Vec2(0, 450), Vec2(0, -450), Vec2(26, -26) }

InitWrap ==
    /\ GameInit
    /\ \E p \in WrapStarts, v \in WrapVels :
          aux = [spec |-> "wrap", pos |-> p, vel |-> v, raw |-> p, n |-> 0]

wrap_step ==
    /\ aux.spec = "wrap"
    /\ aux.n < MaxWrapSteps
    /\ \E dt \in WideDtSet :
          aux' = [aux EXCEPT !.raw = VAdd(aux.pos, VMulDt(dt, aux.vel)),
                             !.pos = Step(aux.pos, aux.vel, dt, WIDTH, HEIGHT),
                             !.n = @ + 1]
    /\ UNCHANGED game

NextWrap == wrap_step

SpecWrap == InitWrap /\ [][NextWrap]_vars

----------------------------------------------------------------------------
(* The rejection loop of next_level on its own, one draw per step: the      *)
(* placement of the rocks of one wave around an exclusion center.           *)

PlaceCenters == { Vec2(0, 0), Vec2(0, 250), Vec2(-380, -290) }

InWindow(p) ==
    /\ p.x >= -(WIDTH \div 2) /\ p.x < WIDTH \div 2
    /\ p.y >= -(HEIGHT \div 2) /\ p.y < HEIGHT \div 2

(* Positions the generator may draw: a grid over the window and the points  *)
(* around the edge of the exclusion zone.                                   *)
PlaceDraws(c) ==
    { p \in { Vec2(i * 100, j * 100) : i \in -4..3, j \in -3..2 }
            \cup { VAdd(c, Vec2(d * k, 0)) : d \in {50, 71, 72, 73}, k \in {-1, 1} }
            \cup { VAdd(c, Vec2(0, d * k)) : d \in {50, 71, 72, 73}, k \in {-1, 1} }
            \cup { VAdd(c, Vec2(43 * k, 58 * k)) : k \in {-1, 1} } :
      InWindow(p) }

InitPlace ==
    /\ GameInit
    /\ \E c \in PlaceCenters :
          aux = [spec |-> "place", exclusion |-> c, pos |-> c, state |-> "start", n |-> 0]

place_draw ==
    /\ aux.spec = "place"
    /\ aux.n < total_rock_count(level)
    /\ \E p \in PlaceDraws(aux.exclusion) :
          aux' = [aux EXCEPT
                    !.pos = p,
                    !.state = IF Excluded(p, aux.exclusion) THEN "retry" ELSE "placed",
                    !.n = IF Excluded(p, aux.exclusion) THEN @ ELSE @ + 1]
    /\ UNCHANGED game

NextPlace == place_draw

SpecPlace == InitPlace /\ [][NextPlace]_vars

----------------------------------------------------------------------------
(* The rock-rock pass on its own: rock_rock_collision applied to three      *)
(* rocks on one axis of the window, some of them overlapping, some with     *)
(* the same center.  aux.before is the Rock table before the last pass,     *)
(* aux.reads what the pass read for every pair it found overlapping.        *)

MaxBouncePasses == 2

BounceVels == { Vec2(10, 5), Vec2(-10, 0), Vec2(0, 0) }

OnAxis(axis, c) == IF axis = "x" THEN Vec2(c, 0) ELSE Vec2(0, c)

SnapshotOf(rs) ==
    [pos |-> [i \in 1..Len(rs) |-> rs[i].pos],
     vel |-> [i \in 1..Len(rs) |-> rs[i].vel]]

(* For every pair in loop order that test_hit finds overlapping: the        *)
(* indices and the positions and velocities the resolution reads.           *)
RECURSIVE ReadsOf(_, _, _)
ReadsOf(pairs, k, st) ==
    IF k > Len(pairs) THEN <<>>
    ELSE LET a == pairs[k][1]
             b == pairs[k][2]
             here == IF test_hit(st.pos[a], ROCK_BBOX, st.pos[b], ROCK_BBOX)
                     THEN <<[a |-> a, b |-> b,
                             pos_a |-> st.pos[a], vel_a |-> st.vel[a],
                             pos_b |-> st.pos[b], vel_b |-> st.vel[b]]>>
                     ELSE <<>>
         IN CHOOSE r \in { here \o ReadsOf(pairs, k + 1, nx) :
                              nx \in {ResolvePair(st, a, b)} } : TRUE

InitBounce ==
    /\ GameInit
    /\ \E axis \in {"x", "y"}, c2 \in {-10, 0, 40}, c3 \in {10, 16, 80},
          v1 \in BounceVels, v2 \in BounceVels, v3 \in BounceVels :
          LET rs == << [id |-> 1, pos |-> ZERO, vel |-> v1],
                       [id |-> 2, pos |-> OnAxis(axis, c2), vel |-> v2],
                       [id |-> 3, pos |-> OnAxis(axis, c3), vel |-> v3] >>
          IN aux = [spec |-> "bounce", rocks |-> rs, before |-> rs,
                    reads |-> <<>>, n |-> 0]

bounce_pass ==
    /\ aux.spec = "bounce"
    /\ aux.n < MaxBouncePasses
    /\ aux' = [aux EXCEPT
                 !.before = aux.rocks,
                 !.reads = ReadsOf(PairsFrom(1, 2, Len(aux.rocks)), 1,
                                   SnapshotOf(aux.rocks)),
                 !.rocks = Bounced(aux.rocks),
                 !.n = @ + 1]
    /\ UNCHANGED game

NextBounce == bounce_pass

SpecBounce == InitBounce /\ [][NextBounce]_vars

----------------------------------------------------------------------------
(* The rejection loop of next_level for the window the host supplies at     *)
(* the time of the call: w.width() and w.height() are read on every draw.   *)
(* The draws are fair: the loop keeps drawing, and a draw that the test     *)
(* accepts comes up eventually whenever one exists.                         *)

SpawnWindows == { <<WIDTH, HEIGHT>>, <<100, 100>> }

SpawnCenters(w, h) == { ZERO, Vec2(-(w \div 2), -(h \div 2)), Vec2(w \div 4, 0) }

(* rng.gen_range(-hw..hw), rng.gen_range(-hh..hh) on a grid of the window.  *)
SpawnDraws(w, h) == { Vec2((i * w) \div 4, (j * h) \div 4) : i \in -2..1, j \in -2..1 }

InitSpawn ==
    /\ GameInit
    /\ \E win \in SpawnWindows :
          \E c \in SpawnCenters(win[1], win[2]) :
             aux = [spec |-> "spawn", w |-> win[1], h |-> win[2],
                    exclusion |-> c, pos |-> c, n |-> 0]

(* A draw the test rejects: the while loop draws again.                     *)
spawn_reject ==
    /\ aux.spec = "spawn"
    /\ aux.n < total_rock_count(level)
    /\ \E p \in SpawnDraws(aux.w, aux.h) :
          /\ Excluded(p, aux.exclusion)
          /\ aux' = [aux EXCEPT !.pos = p]
    /\ UNCHANGED game

(* A draw the test accepts: the rock is spawned there.                      *)
spawn_accept ==
    /\ aux.spec = "spawn"
    /\ aux.n < total_rock_count(level)
    /\ \E p \in SpawnDraws(aux.w, aux.h) :
          /\ ~Excluded(p, aux.exclusion)
          /\ aux' = [aux EXCEPT !.pos = p, !.n = @ + 1]
    /\ UNCHANGED game

NextSpawn == spawn_reject \/ spawn_accept

SpecSpawn ==
    InitSpawn /\ [][NextSpawn]_vars /\ WF_vars(NextSpawn) /\ SF_vars(spawn_accept)

----------------------------------------------------------------------------
(* The life of one shot on its own: the shot control spawns, aged by        *)
(* update_shot_ttl once per frame, for frames of any positive length.       *)
(* Frames keep coming while the game runs.                                  *)

TtlDtSet == {50, 100, 300, 1000, 2500}

InitTtl ==
    /\ GameInit
    /\ aux = [spec |-> "ttl", ttl |-> SHOT_TTL, alive |-> TRUE, dt |-> 0, frames |-> 0]

ttl_tick ==
    /\ aux.spec = "ttl"
    /\ aux.alive
    /\ \E dt \in TtlDtSet :
          aux' = [aux EXCEPT
                    !.ttl = IF Expired(@, dt) THEN @ ELSE checked_sub(@, dt),
                    !.alive = ~Expired(aux.ttl, dt),
                    !.dt = dt,
                    !.frames = IF @ < 2 THEN @ + 1 ELSE @]
    /\ UNCHANGED game

NextTtl == ttl_tick

SpecTtl == InitTtl /\ [][NextTtl]_vars /\ WF_vars(ttl_tick)

----------------------------------------------------------------------------
(* Properties.                                                              *)

(* C1: in every reachable state the wave kill-count is at most the wave     *)
(* size, rock_kill_count <= level + 4.                                      *)
C1_KillCountAtMostWaveSize == rock_kill_count <= total_rock_count(level)

(* The rocks of the table have all been destroyed (a despawn was issued     *)
(* for each of them).                                                       *)
AllRocksDestroyed == \A i \in 1..Len(rocks) : rocks[i].id \in destroyed

RockSpawns(cs) == SelectSeq(cs, LAMBDA c : c.op = "rock")

(* C2: whenever a step destroys the last rocks of the wave, that step       *)
(* clears the wave: the level goes up by exactly 1, the kill-count is reset *)
(* to 0 and a new wave of level + 4 rocks is spawned, none of them inside   *)
(* the exclusion zone around the ship's current position.                   *)
C2_WaveClearedWhenAllDestroyed ==
    [][ (~AllRocksDestroyed /\ AllRocksDestroyed')
        => /\ level' = level + 1
           /\ rock_kill_count' = 0
           /\ LET wave == RockSpawns(commands'["rock_shot_collision"])
              IN /\ Len(wave) = level' + 4
                 /\ \A i \in 1..Len(wave) : ~Excluded(wave[i].pos, player.pos) ]_vars

(* C3: within one shot-rock pass each shot is counted as hitting at most    *)
(* one rock and each rock as hit by at most one shot.                       *)
C3_OneHitPerShotAndRock ==
    \A h1 \in hits : \A h2 \in hits : (h1[1] = h2[1] \/ h1[2] = h2[2]) => h1 = h2

(* C4: the score equals the number of distinct rocks destroyed since        *)
(* initialization.                                                          *)
C4_ScoreCountsDestroyedRocks == score = Cardinality(destroyed)

(* C6: no projectile survives a tick with a remaining lifetime of zero: it  *)
(* is destroyed in the tick in which its lifetime reaches zero.             *)
C6_NoShotSurvivesAtZero ==
    stage = "idle" => \A i \in 1..Len(shots) : shots[i].ttl > 0

(* The position of every entity, by entity id (0 is the ship).              *)
PositionOf ==
    [id \in {0} \cup { rocks[i].id : i \in 1..Len(rocks) }
                \cup { shots[i].id : i \in 1..Len(shots) } |->
        IF id = 0 THEN player.pos
        ELSE IF \E i \in 1..Len(rocks) : rocks[i].id = id
        THEN rocks[IndexOf(rocks, id)].pos
        ELSE shots[IndexOf(shots, id)].pos]

(* C7: once a ship-rock overlap has been detected, no entity position is    *)
(* updated and the score, the kill-count and the level do not change, in    *)
(* the rest of the tick or later.                                           *)
C7_NothingChangesAfterDefeat ==
    [][ exits > 0
        => /\ score' = score
           /\ rock_kill_count' = rock_kill_count
           /\ level' = level
           /\ \A id \in DOMAIN PositionOf \cap DOMAIN PositionOf' :
                 PositionOf'[id] = PositionOf[id] ]_vars

ControlStep == Runs("control") /\ pc' = pc + 1

ShotSpawns(cs) == SelectSeq(cs, LAMBDA c : c.op = "shot")

(* C5: a control step spawns a projectile exactly when fire is pressed and  *)
(* more than the cooldown has passed since last_shot_time; a spawn sets     *)
(* last_shot_time to the current time and creates one projectile, and any   *)
(* two spawns are more than the cooldown apart.                             *)
C5_FireGatedByCooldown ==
    [][ ControlStep
        => LET spawned == Len(ShotSpawns(commands'["control"]))
               ready == last_update - player.last_shot_time > PLAYER_SHOT_TIME
           IN /\ spawned = (IF keys.space /\ ready THEN 1 ELSE 0)
              /\ spawned = 0 => player'.last_shot_time = player.last_shot_time
              /\ spawned = 1 =>
                    /\ player'.last_shot_time = last_update
                    /\ fired' = Append(fired, last_update)
                    /\ \A i \in 1..Len(fired) :
                          last_update - fired[i] > PLAYER_SHOT_TIME ]_vars

(* C5, reached: a first shot, fire pressed in vain exactly one cooldown     *)
(* later, and a second shot after the cooldown.                             *)
C5_Witness ==
    /\ Len(fired) = 2
    /\ \E t \in suppressed :
          /\ fired[1] < t /\ t < fired[2]
          /\ t - fired[1] = PLAYER_SHOT_TIME

(* C8: the first wave is the wave of level 1 and has 1 + 4 rocks; every     *)
(* later change of the level is an increment by one that comes with the     *)
(* spawn of level + 4 rocks, and rocks are spawned in no other way.         *)
C8_WaveSizeIsLevelPlusFour ==
    /\ level = 1 /\ Len(rocks) = 1 + 4
    /\ [][ LET wave == RockSpawns(commands'["rock_shot_collision"])
           IN /\ level' # level => (level' = level + 1 /\ Len(wave) = level' + 4)
              /\ Len(wave) \in {0, level' + 4}
              /\ level' >= 1 ]_vars

(* C8, reached: the second wave (level 2) is in the table, six rocks.       *)
C8_Witness ==
    /\ level = 2
    /\ stage = "idle"
    /\ Len(SelectSeq(rocks, LAMBDA r : r.id \notin destroyed)) = 2 + 4

(* C9: a position the rejection loop returns is at least exclusion radius   *)
(* plus rock radius away from the exclusion center.                         *)
C9_PlacedOutsideExclusionZone ==
    (aux.spec = "place" /\ aux.state = "placed")
    => distance_squared(aux.pos, aux.exclusion)
          >= (5 * PLAYER_BBOX + ROCK_BBOX) * (5 * PLAYER_BBOX + ROCK_BBOX)

(* C9, reached: a rock placed exactly on the edge of the zone, after a      *)
(* draw was rejected.                                                       *)
C9_Witness ==
    /\ aux.spec = "place" /\ aux.state = "placed" /\ aux.n = 1 + 4
    /\ aux.exclusion # ZERO
    /\ distance_squared(aux.pos, aux.exclusion)
          = (5 * PLAYER_BBOX + ROCK_BBOX) * (5 * PLAYER_BBOX + ROCK_BBOX)

InRange(p) ==
    /\ p.x >= -(WIDTH \div 2) /\ p.x <= WIDTH \div 2
    /\ p.y >= -(HEIGHT \div 2) /\ p.y <= HEIGHT \div 2

(* At most one window dimension outside the window.                         *)
InOneScreen(p) ==
    /\ p.x >= -(3 * (WIDTH \div 2)) /\ p.x <= 3 * (WIDTH \div 2)
    /\ p.y >= -(3 * (HEIGHT \div 2)) /\ p.y <= 3 * (HEIGHT \div 2)

FEq(a, b) == ~IsNaN(a) /\ ~IsNaN(b) /\ a = b

VEq(a, b) == FEq(a.x, b.x) /\ FEq(a.y, b.y)

(* The part of v at right angles to the unit vector n.                      *)
Tangential(v, n) == VSub(v, VMulUnit(DotUnit(v, n), n))

(* C11: when a pass resolves one overlapping pair, the components of the    *)
(* two velocities along the normal are swapped, the tangential components   *)
(* are unchanged and the sum of the two velocities is preserved.            *)
C11_NormalComponentsSwapped ==
    (aux.spec = "bounce" /\ Len(aux.reads) = 1)
    => LET rd == aux.reads[1]
           n == normalize(VSub(rd.pos_a, rd.pos_b))
           new_a == aux.rocks[rd.a].vel
           new_b == aux.rocks[rd.b].vel
       IN /\ FEq(DotUnit(new_a, n), DotUnit(rd.vel_b, n))
          /\ FEq(DotUnit(new_b, n), DotUnit(rd.vel_a, n))
          /\ VEq(Tangential(new_a, n), Tangential(rd.vel_a, n))
          /\ VEq(Tangential(new_b, n), Tangential(rd.vel_b, n))
          /\ VEq(VAdd(new_a, new_b), VAdd(rd.vel_a, rd.vel_b))

(* C14: every pair a pass resolves is resolved from the positions and       *)
(* velocities the two rocks had before the pass started.                    *)
C14_PairsResolvedFromSnapshot ==
    aux.spec = "bounce"
    => \A k \in 1..Len(aux.reads) :
          LET rd == aux.reads[k]
          IN /\ rd.pos_a = aux.before[rd.a].pos /\ rd.vel_a = aux.before[rd.a].vel
             /\ rd.pos_b = aux.before[rd.b].pos /\ rd.vel_b = aux.before[rd.b].vel

ValidVec(v) == ~IsNaN(v.x) /\ ~IsNaN(v.y)

(* C15: a pair with coincident centers is not resolved, and no rock ever    *)
(* holds a NaN in its position or velocity.                                 *)
C15_NoNaNFromCoincidentCenters ==
    aux.spec = "bounce"
    => /\ \A k \in 1..Len(aux.reads) : aux.reads[k].pos_a # aux.reads[k].pos_b
       /\ \A i \in 1..Len(aux.rocks) :
             ValidVec(aux.rocks[i].pos) /\ ValidVec(aux.rocks[i].vel)

(* C18: after a pass, the centers of every pair it resolved are at least    *)
(* 2 * radius + 1 apart.                                                    *)
C18_ResolvedPairsSeparated ==
    aux.spec = "bounce"
    => \A k \in 1..Len(aux.reads) :
          FGe(distance_squared(aux.rocks[aux.reads[k].a].pos,
                               aux.rocks[aux.reads[k].b].pos),
              (2 * ROCK_BBOX + 1) * (2 * ROCK_BBOX + 1))

(* A despawn of entity id is in the command buffer of some system.          *)
Queued(id) ==
    \E sys \in SystemNames : \E i \in 1..Len(commands[sys]) : commands[sys][i] = Despawn(id)

RanStep(sys) == Runs(sys) /\ pc' = pc + 1

(* C12: an entity destroyed by an earlier pass of the tick takes part in no *)
(* later pass: no shot-rock hit uses an expired shot or a rock already      *)
(* hit, the ship is killed only by rocks not yet destroyed, and no          *)
(* destroyed rock is part of a rock-rock resolution.                        *)
C12_DestroyedEntitiesUnused ==
    [][ /\ RanStep("rock_shot_collision")
           => \A h \in hits' : ~Queued(h[1]) /\ ~Queued(h[2])
        /\ RanStep("player_rock_collision")
           => exits' - exits
                 = Len(SelectSeq(rocks, LAMBDA r : ShipHitsRock(player, r) /\ ~Queued(r.id)))
        /\ RanStep("rock_rock_collision")
           => LET reads == ReadsOf(PairsFrom(1, 2, Len(rocks)), 1, SnapshotOf(rocks))
              IN \A k \in 1..Len(reads) :
                    ~Queued(rocks[reads[k].a].id) /\ ~Queued(rocks[reads[k].b].id) ]_vars

(* The order of the systems in a tick that C13 states.                      *)
StatedOrder ==
    << "control", "update_box_position", "update_shot_ttl",
       "rock_rock_collision", "rock_shot_collision", "player_rock_collision" >>

Rank(sys) == CHOOSE i \in 1..Len(StatedOrder) : StatedOrder[i] = sys

(* C13: within a tick a system runs only after every system that precedes   *)
(* it in the stated order: firing, physics, lifetime decay, rock-rock,      *)
(* shot-rock, ship-rock.                                                    *)
C13_SystemsRunInStatedOrder ==
    [][ (stage = "update" /\ pc' = pc + 1)
        => \A k \in 1..(pc - 1) : Rank(order[k]) < Rank(order[pc]) ]_vars

(* C17: at most one terminal signal (and one score report) is emitted over  *)
(* a run.                                                                   *)
C17_AtMostOneTerminalSignal == exits <= 1

(* C19: at every tick boundary of an active game the live rocks and the     *)
(* kill count add up to the wave size.                                      *)
C19_LiveRocksPlusKillsIsWaveSize ==
    (stage = "idle" /\ exits = 0) => Len(rocks) + rock_kill_count = level + 4

(* C16: the placement loop terminates for every rock, so every wave spawn   *)
(* completes, whatever window and exclusion center it is given.             *)
C16_EveryWaveSpawnCompletes ==
    <>(aux.spec = "spawn" /\ aux.n = total_rock_count(level))

(* C20: the remaining lifetime of a shot never exceeds SHOT_TTL and never   *)
(* increases, and the shot is eventually destroyed.                         *)
C20_ShotLifetimeEnds ==
    /\ [](aux.spec = "ttl" => (aux.ttl >= 0 /\ aux.ttl <= SHOT_TTL))
    /\ [][aux'.ttl <= aux.ttl]_vars
    /\ <>(aux.spec = "ttl" /\ ~aux.alive)

(* C20, reached: a shot that was aged down to a lifetime of zero, survived  *)
(* that frame and was destroyed by the next one.                            *)
C20_Witness ==
    aux.spec = "ttl" /\ ~aux.alive /\ aux.ttl = 0 /\ aux.dt > 0 /\ aux.frames = 2

====
